---- MODULE Spec2Model ----
(***************************************************************************)
(* A model of cryptobot: the retry decorator and the order helpers of      *)
(* exchange_utils.py, and the staged-exit controller main() of pump.py.    *)
(*                                                                         *)
(* Three specifications share the variables of the module:                 *)
(*   SpecRetry  the wrapper of retry_on_exception around one operation;    *)
(*   SpecSize   the order helpers buy, limit_buy, sell and limit_sell;     *)
(*   Spec       main() of pump.py against an exchange account.             *)
(* Each specification leaves the variables of the other two at rest.       *)
(*                                                                         *)
(* Python's floating point is modelled by exact arithmetic on scaled       *)
(* integers; rounding error of the floats is outside the model.            *)
(***************************************************************************)
EXTENDS Integers, Sequences, FiniteSets

\* ------------------------------------------------------------------ bounds

\* The retry budgets tried besides the default one: 0..MaxRetries.
MaxRetries == 3

\* The default of the parameter `retries` (exchange_utils.py line 8).
DefaultRetries == 10

\* Account balances tried by the order helpers: 0..MaxBalance hundredths of a
\* unit, and the balance of 10 units.
MaxBalance == 12

\* Prices tried by the order helpers: 1..MaxPrice hundredths.
MaxPrice == 3

\* The attempts of the unbounded loops of buy and limit_buy that are followed.
MaxAttempts == 3

\* A unit of the ticker is TicksPerUnit ticks: balances are whole numbers of
\* ticks, order quantities whole numbers of units.
TicksPerUnit == 2

\* The ticker balance before the buy: 0..MaxDust ticks.
MaxDust == 1

\* The quantity of the entry buy: 1..MaxBuy units.
MaxBuy == 2

\* The limit-sell cycles of the unbounded loop of main() that are followed.
MaxCycles == 3

\* The KeyboardInterrupts delivered in one run.
MaxInterrupts == 1

\* The null result of line 19, as a balance or an order id.
None == -1

VARIABLES
    \* --- retry_on_exception(timeout, retries)(func): one call of wrapper
    retries,      \* the retry budget the decorator was built with
    r_pc,         \* "try" | "sleep" | "returned" | "raised"
    r_iter,       \* iterations of `for _ in range(retries)` already finished
    r_calls,      \* invocations of func so far
    r_sleeps,     \* calls of sleep(timeout) so far
    r_transient,  \* invocations that raised NetworkError or ExchangeError
    r_last,       \* the outcome of the latest invocation of func, or "none yet"
    r_result,     \* what wrapper returned or raised, "pending" before that
    \* --- one call of buy, limit_buy, sell or limit_sell
    s_fn,         \* the helper called
    s_balance,    \* what exchange.fetch_balance holds for the asset, in hundredths
    percent,      \* the argument pair_percent (buys) or percent (sells)
    s_price,      \* ticker's last price (buy) or the argument price, in hundredths
    auto_adjust,  \* the argument auto_adjust of buy and limit_buy
    s_pc,         \* "fetch_balance" | "fetch_ticker" | "place" | "returned" | "raised"
    s_iter,       \* finished iterations of the wrapper around sell / limit_sell
    f_iter,       \* finished iterations of the wrapper around the running fetch
    amount,       \* the local `amount`, the rational num/den
    s_submitted,  \* the quantities handed to exchange.create_*_order, in order
    s_last,       \* the outcome of the latest create_*_order, or "none yet"
    s_result,     \* "pending", then "order", "None" or the error raised
    \* --- main() of pump.py
    pc,               \* the place main() has reached (see PumpPcs)
    sell_percent,     \* argument of main
    change_before,    \* argument of main
    step_change,      \* argument of main
    price,            \* symbol_data['ask'], the entry price
    ticker_start,     \* the snapshot of line 11, or None
    polled,           \* the latest result of get_balance at line 16, or None
    sell_change,      \* the local sell_change
    sell_price,       \* the local sell_price, times 100
    sell_order,       \* the id of the order in sell_order, or None
    buy_failures,     \* failed rounds of buy's loop so far
    interrupts,       \* KeyboardInterrupts delivered so far
    interrupted_in,   \* the controller state the first interrupt arrived in
    exit_path,        \* how line 48 was reached: "natural" | "interrupt" | "none"
    error,            \* the uncaught exception that ended the process, and the
                      \* place it was raised at
    \* --- the exchange account
    total,            \* the ticker's total balance, in ticks
    open_orders,      \* the open orders of the symbol: records id, side, qty
    \* --- what main() asked of the exchange
    to_cancel,        \* cancel_open_orders: the fetched orders still to cancel
    listed,           \* cancel_open_orders: the orders fetch_open_orders returned
    cancel_requested, \* ids exchange.cancel_order was called with
    targets,          \* the sell_change of every started limit-sell cycle
    placed            \* the orders placed, in order: records id, kind, qty, and
                      \* for a sell the free balance its sizing fetched

retryVars == <<retries, r_pc, r_iter, r_calls, r_sleeps, r_transient, r_last, r_result>>

sizeVars == <<s_fn, s_balance, percent, s_price, auto_adjust, s_pc, s_iter, f_iter,
              amount, s_submitted, s_last, s_result>>

pumpVars == <<pc, sell_percent, change_before, step_change, price, ticker_start,
              polled, sell_change, sell_price, sell_order, buy_failures,
              interrupts, interrupted_in, exit_path, error, total, open_orders,
              to_cancel, listed, cancel_requested, targets, placed>>

\* The arguments of main(), which no statement assigns.
pumpArgs == <<sell_percent, change_before, step_change, price>>

vars == <<retryVars, sizeVars, pumpVars>>

\* What an action of one specification leaves alone of the other ones.
notRetryVars == <<sizeVars, pumpVars>>

notSizeVars == <<retryVars, pumpVars>>

notPumpVars == <<retryVars, sizeVars>>

\* ------------------------------------------------------- the error classes

\* ccxt.NetworkError and ccxt.ExchangeError with the subclass the code names
\* (InsufficientFunds is an ExchangeError), and two errors outside both.
TransientErrors == {"NetworkError", "ExchangeError", "InsufficientFunds"}

OtherErrors == {"TypeError", "KeyboardInterrupt"}

\* What a wrapped function can return: a value, or None (cancel_order returns
\* None on success).
ReturnValues == {"order", "None"}

\* `except (ccxt.NetworkError, ccxt.ExchangeError)` catches the two classes and
\* their subclasses.
IsTransientCatchAll(e) == TRUE

IsTransient(e) == e \in TransientErrors

\* ------------------------------------------------ retry_on_exception.wrapper

RetryBudgets == (0..MaxRetries) \cup {DefaultRetries}

RetryInit ==
    /\ retries \in RetryBudgets
    /\ r_pc = "try"
    /\ r_iter = 0
    /\ r_calls = 0
    /\ r_sleeps = 0
    /\ r_transient = 0
    /\ r_last = "none yet"
    /\ r_result = "pending"

\* Lines 11-14: one iteration of the for loop calls func; `return func(...)`
\* returns its value, a transient error enters the except clause, any other
\* error leaves wrapper.
InvokeNoReturn ==
    /\ r_pc = "try"
    /\ r_iter < retries
    /\ \E outcome \in ReturnValues \cup TransientErrors \cup OtherErrors :
          /\ r_last' = outcome
          /\ r_calls' = r_calls + 1
          /\ IF outcome \in ReturnValues
                THEN /\ r_pc' = "sleep"
                     /\ r_result' = outcome
                     /\ r_transient' = r_transient
             ELSE IF IsTransient(outcome)
                THEN /\ r_pc' = "sleep"
                     /\ r_result' = r_result
                     /\ r_transient' = r_transient + 1
             ELSE /\ r_pc' = "raised"
                  /\ r_result' = outcome
                  /\ r_transient' = r_transient
    /\ UNCHANGED <<retries, r_iter, r_sleeps, notRetryVars>>

Invoke ==
    /\ r_pc = "try"
    /\ r_iter < retries
    /\ \E outcome \in ReturnValues \cup TransientErrors \cup OtherErrors :
          /\ r_last' = outcome
          /\ r_calls' = r_calls + 1
          /\ IF outcome \in ReturnValues
                THEN /\ r_pc' = "returned"
                     /\ r_result' = outcome
                     /\ r_transient' = r_transient
             ELSE IF IsTransient(outcome)
                THEN /\ r_pc' = "sleep"
                     /\ r_result' = r_result
                     /\ r_transient' = r_transient + 1
             ELSE /\ r_pc' = "raised"
                  /\ r_result' = outcome
                  /\ r_transient' = r_transient
    /\ UNCHANGED <<retries, r_iter, r_sleeps, notRetryVars>>

\* Lines 15-17: print(e); sleep(timeout); continue.
SleepAndContinue ==
    /\ r_pc = "sleep"
    /\ r_sleeps' = r_sleeps + 1
    /\ r_iter' = r_iter + 1
    /\ r_pc' = "try"
    /\ UNCHANGED <<retries, r_calls, r_transient, r_last, r_result,
                   notRetryVars>>

\* Lines 18-19: the loop ran out; print the message and return None.
ExhaustRaises ==
    /\ r_pc = "try"
    /\ r_iter >= retries
    /\ r_pc' = "raised"
    /\ r_result' = r_last
    /\ UNCHANGED <<retries, r_iter, r_calls, r_sleeps, r_transient, r_last,
                   notRetryVars>>

Exhaust ==
    /\ r_pc = "try"
    /\ r_iter >= retries
    /\ r_pc' = "returned"
    /\ r_result' = "None"
    /\ UNCHANGED <<retries, r_iter, r_calls, r_sleeps, r_transient, r_last,
                   notRetryVars>>

NextRetry ==
    \/ Invoke
    \/ SleepAndContinue
    \/ Exhaust

RetryIdle ==
    /\ retries = 0
    /\ r_pc = "idle"
    /\ r_iter = 0
    /\ r_calls = 0
    /\ r_sleeps = 0
    /\ r_transient = 0
    /\ r_last = "none yet"
    /\ r_result = "pending"

\* ----------------------------------------------- claims on the retry wrapper

\* C1: when func raised a transient error on its first k invocations, k below
\* the budget, and returned on invocation k+1, wrapper has returned exactly that
\* value and func was invoked exactly k+1 times: nothing runs after the success.
C1_SuccessAfterKFailures ==
    r_last \in ReturnValues =>
        /\ r_pc = "returned"
        /\ r_result = r_last
        /\ r_transient < retries
        /\ r_calls = r_transient + 1

\* The default budget of 10, nine transient failures, then a success.
C1_Witness ==
    /\ retries = DefaultRetries
    /\ r_transient = DefaultRetries - 1
    /\ r_last = "order"
    /\ r_pc = "returned"

\* C2: when every invocation raised a transient error, wrapper never raises, and
\* it returns only after exactly `retries` invocations, with None.
C2_ExhaustionReturnsNone ==
    r_calls = r_transient =>
        /\ r_pc # "raised"
        /\ r_pc = "returned" =>
              /\ r_result = "None"
              /\ r_calls = retries
              /\ r_sleeps = retries

\* Ten transient failures under the default budget, and None returned.
C2_Witness ==
    /\ retries = DefaultRetries
    /\ r_transient = DefaultRetries
    /\ r_calls = DefaultRetries
    /\ r_pc = "returned"
    /\ r_result = "None"

\* C3: when an invocation raised an error that is neither NetworkError nor
\* ExchangeError nor a subclass, wrapper has raised that error at once: no sleep
\* and no invocation follows it, and no None is returned, however many transient
\* failures came first.
C3_NonTransientPropagates ==
    r_last \in OtherErrors =>
        /\ r_pc = "raised"
        /\ r_result = r_last
        /\ r_calls = r_transient + 1
        /\ r_sleeps = r_transient

\* A TypeError after two transient failures.
C3_Witness ==
    /\ r_pc = "raised"
    /\ r_last = "TypeError"
    /\ r_transient = 2
    /\ r_result = "TypeError"

\* --------------------------------------- buy, limit_buy, sell and limit_sell

\* math.floor of the non-negative rational num/den.
FloorRoundsUp(num, den) == IF num % den = 0 THEN num \div den ELSE (num \div den) + 1

Floor(num, den) == num \div den

\* A whole quantity q as the rational q/1.
Whole(q) == [num |-> q, den |-> 1]

RECURSIVE Gcd(_, _)
Gcd(m, n) == IF n = 0 THEN m ELSE Gcd(n, m % n)

\* The rational a in lowest terms.
Reduced(a) ==
    LET g == Gcd(a.num, a.den)
    IN  [num |-> a.num \div g, den |-> a.den \div g]

\* `amount *= 0.99`.
StepDown(a) == Reduced([num |-> a.num * 99, den |-> a.den * 100])

\* Line 87: floor(fetch_balance(pair) * (pair_percent/100) / last), and line 110
\* with the argument price. Balance and price are in hundredths, so the
\* quotient is (balance/100 * pct/100) / (price/100).
BuyAmount(balance, pct, at_price) == Floor(balance * pct, 100 * at_price)

\* Lines 62 and 72: floor(fetch_balance(ticker) * (percent/100)), the balance in
\* hundredths.
SellAmount(balance, pct) == Floor(balance * pct, 100 * 100)

\* The balance of 10 units is tried at the price of 0.01 only.
SizeBalances == (0..MaxBalance) \cup {10 * 100}

SizePercents == {1, 50, 100}

SizePrices == 1..MaxPrice

Buys == {"buy", "limit_buy"}

Sells == {"sell", "limit_sell"}

\* What exchange.create_*_order does with an order: it places it or raises.
PlaceOutcomes == {"ok", "InsufficientFunds", "ExchangeError", "NetworkError"}

SizeInit ==
    /\ s_fn \in Buys \cup Sells
    /\ s_balance \in SizeBalances
    /\ percent \in SizePercents
    /\ s_price \in (IF s_balance = 10 * 100 THEN {1} ELSE SizePrices)
    /\ auto_adjust \in (IF s_fn \in Buys THEN BOOLEAN ELSE {FALSE})
    /\ s_pc = "fetch_balance"
    /\ s_iter = 0
    /\ f_iter = 0
    /\ amount = Whole(0)
    /\ s_submitted = << >>
    /\ s_last = "none yet"
    /\ s_result = "pending"

SizeIdle ==
    /\ s_fn = "idle"
    /\ s_balance = 0
    /\ percent = 0
    /\ s_price = 1
    /\ auto_adjust = FALSE
    /\ s_pc = "idle"
    /\ s_iter = 0
    /\ f_iter = 0
    /\ amount = Whole(0)
    /\ s_submitted = << >>
    /\ s_last = "none yet"
    /\ s_result = "pending"

\* fetch_balance (lines 25-27) under its wrapper, called from lines 62, 72, 87
\* and 110: an attempt returns the balance or raises a transient error.
FetchBalanceOk ==
    /\ s_pc = "fetch_balance"
    /\ f_iter < DefaultRetries
    /\ s_fn \in Sells => s_iter < DefaultRetries
    /\ f_iter' = 0
    /\ IF s_fn = "buy"
          THEN /\ s_pc' = "fetch_ticker"
               /\ amount' = amount
          ELSE /\ s_pc' = "place"
               /\ amount' = IF s_fn = "limit_buy"
                                THEN Whole(BuyAmount(s_balance, percent, s_price))
                                ELSE Whole(SellAmount(s_balance, percent))
    /\ UNCHANGED <<s_fn, s_balance, percent, s_price, auto_adjust, s_iter,
                   s_submitted, s_last, s_result,
                   notSizeVars>>

\* fetch_ticker (lines 43-48) under its wrapper, called from line 87.
FetchTickerOk ==
    /\ s_pc = "fetch_ticker"
    /\ f_iter < DefaultRetries
    /\ f_iter' = 0
    /\ s_pc' = "place"
    /\ amount' = Whole(BuyAmount(s_balance, percent, s_price))
    /\ UNCHANGED <<s_fn, s_balance, percent, s_price, auto_adjust, s_iter,
                   s_submitted, s_last, s_result,
                   notSizeVars>>

\* An attempt of the running fetch raises NetworkError or ExchangeError: the
\* wrapper sleeps and goes round (lines 14-17).
FetchTransient ==
    /\ s_pc \in {"fetch_balance", "fetch_ticker"}
    /\ f_iter < DefaultRetries
    /\ s_fn \in Sells => s_iter < DefaultRetries
    /\ f_iter' = f_iter + 1
    /\ UNCHANGED <<s_fn, s_balance, percent, s_price, auto_adjust, s_pc, s_iter,
                   amount, s_submitted, s_last, s_result,
                   notSizeVars>>

\* The fetch ran out of retries and returned None (lines 18-19): None * float,
\* or None['last'], raises TypeError, which no handler of the helper catches.
FetchExhausted ==
    /\ s_pc \in {"fetch_balance", "fetch_ticker"}
    /\ f_iter = DefaultRetries
    /\ s_pc' = "raised"
    /\ s_result' = "TypeError"
    /\ UNCHANGED <<s_fn, s_balance, percent, s_price, auto_adjust, s_iter, f_iter,
                   amount, s_submitted, s_last,
                   notSizeVars>>

\* buy, lines 92-102: the local amount after an attempt that raised.
BuyAdjustNoStepDown(a, adjust, outcome) ==
    IF adjust /\ outcome = "ExchangeError" THEN StepDown(a) ELSE a

BuyAdjust(a, adjust, outcome) ==
    IF outcome = "InsufficientFunds"
       THEN IF adjust THEN StepDown(a) ELSE a
       ELSE IF adjust /\ outcome = "ExchangeError" THEN StepDown(a) ELSE a

\* limit_buy, lines 118-123: InsufficientFunds is caught as an ExchangeError,
\* and its class name is not 'ExchangeError'.
LimitBuyAdjust(a, adjust, outcome) ==
    IF adjust /\ outcome = "ExchangeError" THEN StepDown(a) ELSE a

\* buy, lines 89-104: one round of `while not buy_placed`.
BuyPlace ==
    /\ s_fn = "buy"
    /\ s_pc = "place"
    /\ Len(s_submitted) < MaxAttempts
    /\ s_submitted' = Append(s_submitted, amount)
    /\ \E outcome \in PlaceOutcomes :
          /\ s_last' = outcome
          /\ IF outcome = "ok"
                THEN /\ s_pc' = "returned"
                     /\ s_result' = "order"
                     /\ amount' = amount
                ELSE /\ amount' = BuyAdjust(amount, auto_adjust, outcome)
                     /\ UNCHANGED <<s_pc, s_result>>
    /\ UNCHANGED <<s_fn, s_balance, percent, s_price, auto_adjust, s_iter, f_iter,
                   notSizeVars>>

\* A limit_buy that gives the order up after a failed attempt.
LimitBuyPlaceGivesUp ==
    /\ s_fn = "limit_buy"
    /\ s_pc = "place"
    /\ Len(s_submitted) < MaxAttempts
    /\ s_submitted' = Append(s_submitted, amount)
    /\ \E outcome \in PlaceOutcomes :
          /\ s_last' = outcome
          /\ IF outcome = "ok"
                THEN /\ s_pc' = "returned"
                     /\ s_result' = "order"
                     /\ amount' = amount
                ELSE /\ amount' = LimitBuyAdjust(amount, auto_adjust, outcome)
                     /\ s_pc' = IF Len(s_submitted) >= 1 THEN "returned" ELSE s_pc
                     /\ s_result' = IF Len(s_submitted) >= 1 THEN "None" ELSE s_result
    /\ UNCHANGED <<s_fn, s_balance, percent, s_price, auto_adjust, s_iter, f_iter,
                   notSizeVars>>

\* limit_buy, lines 112-125: one round of `while not buy_placed`.
LimitBuyPlace ==
    /\ s_fn = "limit_buy"
    /\ s_pc = "place"
    /\ Len(s_submitted) < MaxAttempts
    /\ s_submitted' = Append(s_submitted, amount)
    /\ \E outcome \in PlaceOutcomes :
          /\ s_last' = outcome
          /\ IF outcome = "ok"
                THEN /\ s_pc' = "returned"
                     /\ s_result' = "order"
                     /\ amount' = amount
                ELSE /\ amount' = LimitBuyAdjust(amount, auto_adjust, outcome)
                     /\ UNCHANGED <<s_pc, s_result>>
    /\ UNCHANGED <<s_fn, s_balance, percent, s_price, auto_adjust, s_iter, f_iter,
                   notSizeVars>>

\* sell (lines 58-63) and limit_sell (lines 68-74): the order is created inside
\* the wrapper's try; a transient error ends this iteration of the wrapper, and
\* the next one calls the helper again from its first line.
SellPlace ==
    /\ s_fn \in Sells
    /\ s_pc = "place"
    /\ s_submitted' = Append(s_submitted, amount)
    /\ \E outcome \in PlaceOutcomes :
          /\ s_last' = outcome
          /\ IF outcome = "ok"
                THEN /\ s_pc' = "returned"
                     /\ s_result' = "order"
                     /\ s_iter' = s_iter
                ELSE /\ s_pc' = "fetch_balance"
                     /\ s_iter' = s_iter + 1
                     /\ s_result' = s_result
    /\ UNCHANGED <<s_fn, s_balance, percent, s_price, auto_adjust, f_iter, amount,
                   notSizeVars>>

\* Lines 18-19 for sell and limit_sell: the wrapper's loop ran out.
SellExhausted ==
    /\ s_fn \in Sells
    /\ s_pc = "fetch_balance"
    /\ s_iter = DefaultRetries
    /\ s_pc' = "returned"
    /\ s_result' = "None"
    /\ UNCHANGED <<s_fn, s_balance, percent, s_price, auto_adjust, s_iter, f_iter,
                   amount, s_submitted, s_last,
                   notSizeVars>>

NextSize ==
    \/ FetchBalanceOk
    \/ FetchTickerOk
    \/ FetchTransient
    \/ FetchExhausted
    \/ BuyPlace
    \/ LimitBuyPlace
    \/ SellPlace
    \/ SellExhausted

\* ---------------------------------------------- claims on the order helpers

\* q is the floor of num/den, stated without integer division.
IsFloorOf(q, num, den) == q * den <= num /\ num < (q + 1) * den

\* C10: the first quantity buy submits is floor(balance(pair) * pair_percent/100
\* / last_price), limit_buy's is the same with the argument price, and the first
\* quantity of sell and limit_sell is floor(balance(ticker) * percent/100); a
\* balance of 10, 50 percent and a price of 0.01 make buy submit 500.
C10_InitialQuantity ==
    Len(s_submitted) >= 1 =>
        /\ s_submitted[1].den = 1
        /\ s_fn \in Buys =>
              IsFloorOf(s_submitted[1].num, s_balance * percent, 100 * s_price)
        /\ s_fn \in Sells =>
              IsFloorOf(s_submitted[1].num, s_balance * percent, 100 * 100)
        /\ (s_fn = "buy" /\ s_balance = 10 * 100 /\ percent = 50 /\ s_price = 1) =>
              s_submitted[1].num = 500

\* buy has submitted its first order from a balance of 10 at 50 percent and a
\* last price of 0.01.
C10_Witness ==
    /\ s_fn = "buy"
    /\ s_balance = 10 * 100
    /\ percent = 50
    /\ s_price = 1
    /\ Len(s_submitted) = 1
    /\ s_submitted[1] = Whole(500)

\* The rational a is a whole number.
IsWhole(a) == a.num % a.den = 0

\* The rationals a and b are the same number.
SameQuantity(a, b) == Reduced(a) = Reduced(b)

\* The rational a is 99% of the rational b.
IsNinetyNinePercentOf(a, b) ==
    Reduced(a) = Reduced([num |-> 99 * b.num, den |-> 100 * b.den])

\* The quantity of the latest attempt.
LastSubmitted == s_submitted[Len(s_submitted)]

\* C11: every quantity buy, limit_buy, sell or limit_sell hands to the exchange
\* is a whole number of units, on every attempt, those after 1% step-downs
\* included.
C11_SubmittedQuantitiesWhole ==
    \A i \in DOMAIN s_submitted : IsWhole(s_submitted[i])

\* C12: after a market-buy attempt that raised InsufficientFunds, buy is still
\* in its loop, with nothing returned or raised, and the quantity of its next
\* attempt is 99% of the one just refused if auto_adjust is set and the same
\* quantity if it is not.
C12_BuyStepDown ==
    (s_fn = "buy" /\ s_last = "InsufficientFunds") =>
        /\ s_pc = "place"
        /\ s_result = "pending"
        /\ auto_adjust => IsNinetyNinePercentOf(amount, LastSubmitted)
        /\ ~auto_adjust => SameQuantity(amount, LastSubmitted)

\* buy with auto_adjust was refused 500 units for insufficient funds and goes
\* on with 495.
C12_Witness ==
    /\ s_fn = "buy"
    /\ auto_adjust
    /\ s_last = "InsufficientFunds"
    /\ s_submitted = <<Whole(500)>>
    /\ amount.num = 495 * amount.den
    /\ s_pc = "place"

\* C13: after a failed attempt limit_buy goes on with the quantity buy goes on
\* with after the same outcome under the same auto_adjust; after
\* InsufficientFunds with auto_adjust set that is 99% of the refused quantity.
C13_LimitBuyHandlesFailuresAsBuy ==
    (s_fn = "limit_buy" /\ s_last \notin {"none yet", "ok"}) =>
        /\ s_pc = "place"
        /\ SameQuantity(amount, BuyAdjust(LastSubmitted, auto_adjust, s_last))
        /\ (auto_adjust /\ s_last = "InsufficientFunds") =>
              IsNinetyNinePercentOf(amount, LastSubmitted)

\* C14: once buy or limit_buy has sized its order, it returns exactly when an
\* attempt succeeded, at once and with that order; while every attempt was
\* refused (insufficient funds, exchange error, network error) it is still in
\* its loop and has given its caller neither None nor an error.
C14_BuyRetryUnbounded ==
    (s_fn \in Buys /\ Len(s_submitted) >= 1) =>
        /\ s_pc \in {"place", "returned"}
        /\ s_pc = "returned" <=> s_last = "ok"
        /\ s_result = (IF s_last = "ok" THEN "order" ELSE "pending")

\* limit_buy returned the order of its third attempt.
C14_Witness ==
    /\ s_fn = "limit_buy"
    /\ Len(s_submitted) = 3
    /\ s_last = "ok"
    /\ s_pc = "returned"
    /\ s_result = "order"
    /\ s_balance = 10 * 100

\* C15: after an attempt of sell or limit_sell that raised InsufficientFunds
\* the helper tries again with 99% of the refused quantity, and it never gives
\* the order up with None.
C15_SellsStepDownLikeBuy ==
    s_fn \in Sells =>
        /\ (s_last = "InsufficientFunds" /\ s_pc = "place") =>
               IsNinetyNinePercentOf(amount, LastSubmitted)
        /\ s_last = "InsufficientFunds" => s_result # "None"

\* C18: sell and limit_sell end by returning the order or None and never by
\* raising, when every failure of the exchange is a NetworkError or an
\* ExchangeError, the inner fetch_balance running out of retries included.
C18_SellsNeverRaise ==
    s_fn \in Sells =>
        /\ s_pc # "raised"
        /\ s_result \in {"pending", "order", "None"}

\* ------------------------------------------------------- main() of pump.py
\*
\* pump.py calls the helpers of exchange_utils under shorter names; the model
\* reads get_balance as fetch_balance (lines 25-27), sell with a price as
\* limit_sell (68-74), sell without one as sell (58-63), cancel as cancel_order
\* (156-158), cancel_orders as cancel_open_orders (162-164) and buy as buy
\* (86-104).  Every one of them but buy and cancel_open_orders runs under the
\* wrapper of retry_on_exception with the default budget.

\* The states of the staged-exit controller.
ENTERING == pc = "poll"

HoldingPcs == {"loop_check", "place", "report", "wait", "cancel"}

HOLDING_AND_SELLING == pc \in HoldingPcs

EXITED == pc = "exited"

\* Where the process has ended: line 48 reached, sys.exit() of line 22, or an
\* exception no handler of main() catches.
Terminal == {"exited", "sys_exit", "crashed"}

PumpPcs == {"start", "buy", "poll", "enter_cancel_fetch", "enter_cancel_loop",
            "exit_cancel_fetch", "exit_cancel_loop", "market_sell"}
           \cup HoldingPcs \cup Terminal

\* The statements inside `try:` of lines 15-18 and of lines 30-40.
EnteringTry == {"poll"}

HoldingTry == HoldingPcs

SellPercents == {5}

ChangesBefore == {2}

StepChanges == {-1, 0, 1, 60}

EntryPrices == {2}

RECURSIVE SumQty(_)
SumQty(orders) ==
    IF orders = {} THEN 0
    ELSE LET o == CHOOSE x \in orders : TRUE
         IN  o.qty + SumQty(orders \ {o})

OpenSells == {o \in open_orders : o.side = "sell"}

OpenIds == {o.id : o \in open_orders}

\* fetch_balance(ticker, 'free'): what no open sell order holds.
Free == total - SumQty(OpenSells)

\* Lines 62 and 72 with the balance in ticks: the whole units of
\* balance * percent/100.
SellUnits(balance, pct) == Floor(balance * pct, 100 * TicksPerUnit)

\* The exchange takes an order for a positive quantity and refuses one for
\* zero with an ExchangeError.
Accepts(units) == units > 0

\* The lowest id among ids.
MinId(ids) == CHOOSE i \in ids : \A j \in ids : i <= j

NextId == Len(placed)

LimitSellsPlaced == {i \in DOMAIN placed : placed[i].kind = "limit"}

MarketSellsPlaced == {i \in DOMAIN placed : placed[i].kind = "market"}

PumpInit ==
    /\ pc = "start"
    /\ sell_percent \in SellPercents
    /\ change_before \in ChangesBefore
    /\ step_change \in StepChanges
    /\ price \in EntryPrices
    /\ ticker_start = 0
    /\ polled = 0
    /\ sell_change = 0
    /\ sell_price = 0
    /\ sell_order = 0
    /\ buy_failures = 0
    /\ interrupts = 0
    /\ interrupted_in = "never"
    /\ exit_path = "none"
    /\ error = [kind |-> "none", at |-> "none"]
    /\ total \in 0..MaxDust
    /\ open_orders = {}
    /\ to_cancel = {}
    /\ listed = {}
    /\ cancel_requested = {}
    /\ targets = << >>
    /\ placed = << >>

PumpIdle ==
    /\ pc = "idle"
    /\ sell_percent = 0
    /\ change_before = 0
    /\ step_change = 0
    /\ price = 0
    /\ ticker_start = 0
    /\ polled = 0
    /\ sell_change = 0
    /\ sell_price = 0
    /\ sell_order = 0
    /\ buy_failures = 0
    /\ interrupts = 0
    /\ interrupted_in = "never"
    /\ exit_path = "none"
    /\ error = [kind |-> "none", at |-> "none"]
    /\ total = 0
    /\ open_orders = {}
    /\ to_cancel = {}
    /\ listed = {}
    /\ cancel_requested = {}
    /\ targets = << >>
    /\ placed = << >>

\* An uncaught exception ends the process.
Crash(e) ==
    /\ pc' = "crashed"
    /\ error' = [kind |-> e, at |-> pc]

\* Lines 7-11: the ticker data and the two balance snapshots.  get_balance
\* returns the balance, or None once its wrapper ran out of retries.
Snapshot ==
    /\ pc = "start"
    /\ pc' = "buy"
    /\ ticker_start' \in {Free, None}
    /\ UNCHANGED <<pumpArgs, polled, sell_change, sell_price, sell_order,
                   buy_failures, interrupts, interrupted_in, exit_path, error,
                   total, open_orders, to_cancel, listed, cancel_requested,
                   targets, placed, notPumpVars>>

\* Line 8: get_symbol returned None and symbol_data['ask'] raises TypeError.
SnapshotRaises ==
    /\ pc = "start"
    /\ Crash("TypeError")
    /\ UNCHANGED <<pumpArgs, ticker_start, polled, sell_change, sell_price,
                   sell_order, buy_failures, interrupts, interrupted_in,
                   exit_path, total, open_orders, to_cancel, listed,
                   cancel_requested, targets, placed, notPumpVars>>

\* Line 13, buy lines 89-104: a round of buy's loop places the order, for the
\* whole quantity its sizing and step-downs arrived at.
BuyPlaced ==
    /\ pc = "buy"
    /\ \E units \in 1..MaxBuy :
          /\ open_orders' = open_orders \cup
                {[id |-> NextId, side |-> "buy", qty |-> units * TicksPerUnit]}
          /\ placed' = Append(placed, [id |-> NextId, kind |-> "buy",
                                       qty |-> units * TicksPerUnit])
    /\ pc' = "poll"
    /\ UNCHANGED <<pumpArgs, ticker_start, polled, sell_change, sell_price,
                   sell_order, buy_failures, interrupts, interrupted_in,
                   exit_path, error, total, to_cancel, listed,
                   cancel_requested, targets, notPumpVars>>

\* buy lines 92-102: the exchange refused the order; sleep(1) and go round.
BuyFails ==
    /\ pc = "buy"
    /\ buy_failures < MaxAttempts
    /\ buy_failures' = buy_failures + 1
    /\ UNCHANGED <<pc, pumpArgs, ticker_start, polled, sell_change,
                   sell_price, sell_order, interrupts, interrupted_in,
                   exit_path, error, total, open_orders, to_cancel, listed,
                   cancel_requested, targets, placed, notPumpVars>>

\* buy line 87: fetch_balance or fetch_ticker returned None; TypeError.
BuyRaises ==
    /\ pc = "buy"
    /\ buy_failures = 0
    /\ Crash("TypeError")
    /\ UNCHANGED <<pumpArgs, ticker_start, polled, sell_change, sell_price,
                   sell_order, buy_failures, interrupts, interrupted_in,
                   exit_path, total, open_orders, to_cancel, listed,
                   cancel_requested, targets, placed, notPumpVars>>

\* Line 16: `while not get_balance(ticker) > ticker_start`, the balance got.
\* Comparing with a None snapshot raises TypeError.  Past the loop, lines
\* 24-28 set sell_change.
PollBalanceAtLeast ==
    /\ pc = "poll"
    /\ polled' = Free
    /\ IF ticker_start = None
          THEN /\ Crash("TypeError")
               /\ sell_change' = sell_change
          ELSE IF Free >= ticker_start
          THEN /\ pc' = "loop_check"
               /\ sell_change' = sell_percent + change_before
               /\ error' = error
          ELSE /\ pc' = "poll"
               /\ UNCHANGED <<sell_change, error>>
    /\ UNCHANGED <<pumpArgs, ticker_start, sell_price, sell_order,
                   buy_failures, interrupts, interrupted_in, exit_path, total,
                   open_orders, to_cancel, listed, cancel_requested, targets,
                   placed, notPumpVars>>

PollBalance ==
    /\ pc = "poll"
    /\ polled' = Free
    /\ IF ticker_start = None
          THEN /\ Crash("TypeError")
               /\ sell_change' = sell_change
          ELSE IF Free > ticker_start
          THEN /\ pc' = "loop_check"
               /\ sell_change' = sell_percent + change_before
               /\ error' = error
          ELSE /\ pc' = "poll"
               /\ UNCHANGED <<sell_change, error>>
    /\ UNCHANGED <<pumpArgs, ticker_start, sell_price, sell_order,
                   buy_failures, interrupts, interrupted_in, exit_path, total,
                   open_orders, to_cancel, listed, cancel_requested, targets,
                   placed, notPumpVars>>

\* Lines 16 and 31: get_balance ran out of retries and returned None, and
\* `None > x` raises TypeError.
BalanceExhausted ==
    /\ pc \in {"poll", "loop_check"}
    /\ Crash("TypeError")
    /\ polled' = IF pc = "poll" THEN None ELSE polled
    /\ UNCHANGED <<pumpArgs, ticker_start, sell_change, sell_price,
                   sell_order, buy_failures, interrupts, interrupted_in,
                   exit_path, total, open_orders, to_cancel, listed,
                   cancel_requested, targets, placed, notPumpVars>>

\* Line 31: `while get_balance(ticker, 'total') > 0`, the balance got.  A
\* positive balance starts a cycle with line 32,
\* sell_price = price * (1 + sell_change/100); a zero one leaves the loop for
\* line 48.
LoopCheck ==
    /\ pc = "loop_check"
    /\ IF total > 0
          THEN /\ Len(targets) < MaxCycles
               /\ pc' = "place"
               /\ sell_price' = price * (100 + sell_change)
               /\ targets' = Append(targets, sell_change)
               /\ exit_path' = exit_path
          ELSE /\ pc' = "exited"
               /\ exit_path' = "natural"
               /\ UNCHANGED <<sell_price, targets>>
    /\ UNCHANGED <<pumpArgs, ticker_start, polled, sell_change, sell_order,
                   buy_failures, interrupts, interrupted_in, error, total,
                   open_orders, to_cancel, listed, cancel_requested, placed,
                   notPumpVars>>

\* Line 33, limit_sell lines 70-74: the exchange takes a limit sell for
\* floor(free balance * 100/100) units.
LimitSellAtMarket ==
    /\ pc = "place"
    /\ Accepts(SellUnits(Free, 100))
    /\ LET qty == SellUnits(Free, 100) * TicksPerUnit
       IN  /\ total' = total - qty
           /\ placed' = Append(placed, [id |-> NextId, kind |-> "market", qty |-> qty,
                                        free |-> Free])
    /\ sell_order' = NextId
    /\ pc' = "report"
    /\ UNCHANGED <<pumpArgs, ticker_start, polled, sell_change, sell_price,
                   buy_failures, interrupts, interrupted_in, exit_path, error,
                   open_orders, to_cancel, listed, cancel_requested, targets,
                   notPumpVars>>

LimitSell ==
    /\ pc = "place"
    /\ Accepts(SellUnits(Free, 100))
    /\ LET qty == SellUnits(Free, 100) * TicksPerUnit
       IN  /\ open_orders' = open_orders \cup
                  {[id |-> NextId, side |-> "sell", qty |-> qty]}
           /\ placed' = Append(placed, [id |-> NextId, kind |-> "limit", qty |-> qty,
                                        free |-> Free])
    /\ sell_order' = NextId
    /\ pc' = "report"
    /\ UNCHANGED <<pumpArgs, ticker_start, polled, sell_change, sell_price,
                   buy_failures, interrupts, interrupted_in, exit_path, error,
                   total, to_cancel, listed, cancel_requested, targets,
                   notPumpVars>>

\* Lines 18-19 round limit_sell: no attempt placed the order, sell_order is
\* None.
LimitSellExhausted ==
    /\ pc = "place"
    /\ sell_order' = None
    /\ pc' = "report"
    /\ UNCHANGED <<pumpArgs, ticker_start, polled, sell_change, sell_price,
                   buy_failures, interrupts, interrupted_in, exit_path, error,
                   total, open_orders, to_cancel, listed, cancel_requested,
                   targets, placed, notPumpVars>>

\* Lines 62 and 72: the fetch_balance inside sell or limit_sell returned None;
\* None * 1.0 raises TypeError, which the wrapper round the helper lets through.
InnerFetchExhausted ==
    /\ pc \in {"place", "market_sell"}
    /\ Crash("TypeError")
    /\ UNCHANGED <<pumpArgs, ticker_start, polled, sell_change, sell_price,
                   sell_order, buy_failures, interrupts, interrupted_in,
                   exit_path, total, open_orders, to_cancel, listed,
                   cancel_requested, targets, placed, notPumpVars>>

\* Lines 34-37: sell_order["info"] and get_symbol(symbol)['change'].  A None
\* sell_order, or a None from get_symbol, raises TypeError.
Report ==
    /\ pc = "report"
    /\ sell_order # None
    /\ pc' = "wait"
    /\ UNCHANGED <<pumpArgs, ticker_start, polled, sell_change, sell_price,
                   sell_order, buy_failures, interrupts, interrupted_in,
                   exit_path, error, total, open_orders, to_cancel, listed,
                   cancel_requested, targets, placed, notPumpVars>>

ReportRaises ==
    /\ pc = "report"
    /\ Crash("TypeError")
    /\ UNCHANGED <<pumpArgs, ticker_start, polled, sell_change, sell_price,
                   sell_order, buy_failures, interrupts, interrupted_in,
                   exit_path, total, open_orders, to_cancel, listed,
                   cancel_requested, targets, placed, notPumpVars>>

\* Line 38: sleep(time_interval) returns.
WaitWithoutCancel ==
    /\ pc = "wait"
    /\ pc' = "loop_check"
    /\ sell_change' = sell_change - step_change
    /\ UNCHANGED <<pumpArgs, ticker_start, polled, sell_price,
                   sell_order, buy_failures, interrupts, interrupted_in,
                   exit_path, error, total, open_orders, to_cancel, listed,
                   cancel_requested, targets, placed, notPumpVars>>

Wait ==
    /\ pc = "wait"
    /\ pc' = "cancel"
    /\ UNCHANGED <<pumpArgs, ticker_start, polled, sell_change, sell_price,
                   sell_order, buy_failures, interrupts, interrupted_in,
                   exit_path, error, total, open_orders, to_cancel, listed,
                   cancel_requested, targets, placed, notPumpVars>>

\* Lines 39-40: cancel(sell_order) took the order off the book; then
\* sell_change -= step_change and back to line 31.
CancelSellOrderNoDecrement ==
    /\ pc = "cancel"
    /\ sell_order \in OpenIds
    /\ open_orders' = {o \in open_orders : o.id # sell_order}
    /\ cancel_requested' = cancel_requested \cup {sell_order}
    /\ sell_change' = sell_change
    /\ pc' = "loop_check"
    /\ UNCHANGED <<pumpArgs, ticker_start, polled, sell_price, sell_order,
                   buy_failures, interrupts, interrupted_in, exit_path, error,
                   total, to_cancel, listed, targets, placed, notPumpVars>>

CancelSellOrder ==
    /\ pc = "cancel"
    /\ sell_order \in OpenIds
    /\ open_orders' = {o \in open_orders : o.id # sell_order}
    /\ cancel_requested' = cancel_requested \cup {sell_order}
    /\ sell_change' = sell_change - step_change
    /\ pc' = "loop_check"
    /\ UNCHANGED <<pumpArgs, ticker_start, polled, sell_price, sell_order,
                   buy_failures, interrupts, interrupted_in, exit_path, error,
                   total, to_cancel, listed, targets, placed, notPumpVars>>

\* Lines 39-40 when cancel_order ran out of retries: its None is dropped, and
\* sell_change -= step_change all the same.
CancelSellOrderExhausted ==
    /\ pc = "cancel"
    /\ cancel_requested' = cancel_requested \cup {sell_order}
    /\ sell_change' = sell_change - step_change
    /\ pc' = "loop_check"
    /\ UNCHANGED <<pumpArgs, ticker_start, polled, sell_price, sell_order,
                   buy_failures, interrupts, interrupted_in, exit_path, error,
                   total, open_orders, to_cancel, listed,
                   targets, placed, notPumpVars>>

\* cancel_open_orders line 163: exchange.fetch_open_orders returns the open
\* orders of the symbol (called from line 20 and from line 42).
CancelOrdersFetch ==
    /\ pc \in {"enter_cancel_fetch", "exit_cancel_fetch"}
    /\ to_cancel' = OpenIds
    /\ listed' = OpenIds
    /\ pc' = IF pc = "enter_cancel_fetch" THEN "enter_cancel_loop"
                                           ELSE "exit_cancel_loop"
    /\ UNCHANGED <<pumpArgs, ticker_start, polled, sell_change, sell_price,
                   sell_order, buy_failures, interrupts, interrupted_in,
                   exit_path, error, total, open_orders, cancel_requested,
                   targets, placed, notPumpVars>>

\* Line 163 has no wrapper: a NetworkError of fetch_open_orders leaves the
\* except clause of main() uncaught.
CancelOrdersFetchRaises ==
    /\ pc \in {"enter_cancel_fetch", "exit_cancel_fetch"}
    /\ Crash("NetworkError")
    /\ UNCHANGED <<pumpArgs, ticker_start, polled, sell_change, sell_price,
                   sell_order, buy_failures, interrupts, interrupted_in,
                   exit_path, total, open_orders, to_cancel, listed,
                   cancel_requested, targets, placed, notPumpVars>>

\* Line 164: cancel_order took the next fetched order off the book.
CancelOpenOrder ==
    /\ pc \in {"enter_cancel_loop", "exit_cancel_loop"}
    /\ to_cancel # {}
    /\ MinId(to_cancel) \in OpenIds
    /\ open_orders' = {o \in open_orders : o.id # MinId(to_cancel)}
    /\ cancel_requested' = cancel_requested \cup {MinId(to_cancel)}
    /\ to_cancel' = to_cancel \ {MinId(to_cancel)}
    /\ UNCHANGED <<pc, pumpArgs, ticker_start, polled, sell_change,
                   sell_price, sell_order, buy_failures, interrupts,
                   interrupted_in, exit_path, error, total, listed, targets,
                   placed, notPumpVars>>

\* Line 164 when cancel_order ran out of retries: the loop goes on to the
\* next order.
CancelOpenOrderExhausted ==
    /\ pc \in {"enter_cancel_loop", "exit_cancel_loop"}
    /\ to_cancel # {}
    /\ cancel_requested' = cancel_requested \cup {MinId(to_cancel)}
    /\ to_cancel' = to_cancel \ {MinId(to_cancel)}
    /\ UNCHANGED <<pc, pumpArgs, ticker_start, polled, sell_change,
                   sell_price, sell_order, buy_failures, interrupts,
                   interrupted_in, exit_path, error, total, open_orders,
                   listed, targets, placed, notPumpVars>>

\* Lines 20-22: cancel_orders returned; print and sys.exit().
ExitAfterCancel ==
    /\ pc = "enter_cancel_loop"
    /\ to_cancel = {}
    /\ pc' = "sys_exit"
    /\ UNCHANGED <<pumpArgs, ticker_start, polled, sell_change, sell_price,
                   sell_order, buy_failures, interrupts, interrupted_in,
                   exit_path, error, total, open_orders, to_cancel, listed,
                   cancel_requested, targets, placed, notPumpVars>>

\* Lines 42-43: cancel_orders returned; on to the market sell.
SellAfterCancel ==
    /\ pc = "exit_cancel_loop"
    /\ to_cancel = {}
    /\ pc' = "market_sell"
    /\ UNCHANGED <<pumpArgs, ticker_start, polled, sell_change, sell_price,
                   sell_order, buy_failures, interrupts, interrupted_in,
                   exit_path, error, total, open_orders, to_cancel, listed,
                   cancel_requested, targets, placed, notPumpVars>>

\* Lines 43-48, sell lines 60-63: the exchange takes a market sell for
\* floor(free balance * 100/100) units and fills it; lines 44-46 read the
\* order and line 48 is reached.
MarketSell ==
    /\ pc = "market_sell"
    /\ Accepts(SellUnits(Free, 100))
    /\ LET qty == SellUnits(Free, 100) * TicksPerUnit
       IN  /\ total' = total - qty
           /\ placed' = Append(placed, [id |-> NextId, kind |-> "market", qty |-> qty,
                                        free |-> Free])
    /\ sell_order' = NextId
    /\ pc' = "exited"
    /\ exit_path' = "interrupt"
    /\ UNCHANGED <<pumpArgs, ticker_start, polled, sell_change, sell_price,
                   buy_failures, interrupts, interrupted_in, error,
                   open_orders, to_cancel, listed, cancel_requested, targets,
                   notPumpVars>>

\* Lines 43-44 when sell ran out of retries: sell_order is None and
\* sell_order['info'] raises TypeError inside the except clause.
MarketSellExhausted ==
    /\ pc = "market_sell"
    /\ sell_order' = None
    /\ Crash("TypeError")
    /\ UNCHANGED <<pumpArgs, ticker_start, polled, sell_change, sell_price,
                   buy_failures, interrupts, interrupted_in, exit_path, total,
                   open_orders, to_cancel, listed, cancel_requested, targets,
                   placed, notPumpVars>>

\* Ctrl+C: KeyboardInterrupt is raised at the statement main() is at.  Inside
\* the try of lines 15-18 it enters line 20, inside the try of lines 30-40 it
\* enters line 42 (the wrappers do not catch it); anywhere else nothing
\* catches it.
InterruptSkipsHandler ==
    /\ pc \notin Terminal
    /\ interrupts < MaxInterrupts
    /\ interrupts' = interrupts + 1
    /\ interrupted_in' =
          IF interrupts > 0 THEN interrupted_in
          ELSE IF ENTERING THEN "ENTERING"
          ELSE IF HOLDING_AND_SELLING THEN "HOLDING_AND_SELLING"
          ELSE "elsewhere"
    /\ to_cancel' = {}
    /\ IF pc \in EnteringTry
          THEN pc' = "loop_check" /\ error' = error
       ELSE IF pc \in HoldingTry
          THEN pc' = "exit_cancel_fetch" /\ error' = error
       ELSE Crash("KeyboardInterrupt")
    /\ UNCHANGED <<pumpArgs, ticker_start, polled, sell_change, sell_price,
                   sell_order, buy_failures, exit_path, total, open_orders,
                   listed, cancel_requested, targets, placed, notPumpVars>>

Interrupt ==
    /\ pc \notin Terminal
    /\ interrupts < MaxInterrupts
    /\ interrupts' = interrupts + 1
    /\ interrupted_in' =
          IF interrupts > 0 THEN interrupted_in
          ELSE IF ENTERING THEN "ENTERING"
          ELSE IF HOLDING_AND_SELLING THEN "HOLDING_AND_SELLING"
          ELSE "elsewhere"
    /\ to_cancel' = {}
    /\ IF pc \in EnteringTry
          THEN pc' = "enter_cancel_fetch" /\ error' = error
       ELSE IF pc \in HoldingTry
          THEN pc' = "exit_cancel_fetch" /\ error' = error
       ELSE Crash("KeyboardInterrupt")
    /\ UNCHANGED <<pumpArgs, ticker_start, polled, sell_change, sell_price,
                   sell_order, buy_failures, exit_path, total, open_orders,
                   listed, cancel_requested, targets, placed, notPumpVars>>

\* The exchange fills one unit of the open buy order.
BuyFill ==
    /\ pc \notin Terminal
    /\ \E o \in open_orders :
          /\ o.side = "buy"
          /\ total' = total + TicksPerUnit
          /\ open_orders' = (open_orders \ {o}) \cup
                {[o EXCEPT !.qty = o.qty - TicksPerUnit] : x \in
                    IF o.qty > TicksPerUnit THEN {1} ELSE {}}
    /\ UNCHANGED <<pc, pumpArgs, ticker_start, polled, sell_change,
                   sell_price, sell_order, buy_failures, interrupts,
                   interrupted_in, exit_path, error, to_cancel, listed,
                   cancel_requested, targets, placed, notPumpVars>>

\* The exchange fills an open sell order, all of it or one unit of it.
SellFill ==
    /\ pc \notin Terminal
    /\ \E o \in OpenSells :
       \E part \in {o.qty, TicksPerUnit} :
          /\ total' = total - part
          /\ open_orders' = (open_orders \ {o}) \cup
                {[o EXCEPT !.qty = o.qty - part] : x \in
                    IF o.qty > part THEN {1} ELSE {}}
    /\ UNCHANGED <<pc, pumpArgs, ticker_start, polled, sell_change,
                   sell_price, sell_order, buy_failures, interrupts,
                   interrupted_in, exit_path, error, to_cancel, listed,
                   cancel_requested, targets, placed, notPumpVars>>

NextPump ==
    \/ Snapshot
    \/ SnapshotRaises
    \/ BuyPlaced
    \/ BuyFails
    \/ BuyRaises
    \/ PollBalance
    \/ BalanceExhausted
    \/ LoopCheck
    \/ LimitSell
    \/ LimitSellExhausted
    \/ InnerFetchExhausted
    \/ Report
    \/ ReportRaises
    \/ Wait
    \/ CancelSellOrder
    \/ CancelSellOrderExhausted
    \/ CancelOrdersFetch
    \/ CancelOrdersFetchRaises
    \/ CancelOpenOrder
    \/ CancelOpenOrderExhausted
    \/ ExitAfterCancel
    \/ SellAfterCancel
    \/ MarketSell
    \/ MarketSellExhausted
    \/ Interrupt
    \/ BuyFill
    \/ SellFill

\* -------------------------------------------- claims on the staged exit

\* The places of main() from line 28 on: the loop and the except clause of
\* lines 41-46.
AfterEntry == HoldingPcs \cup {"exit_cancel_fetch", "exit_cancel_loop", "market_sell"}

C5_LoopStopsOnlyByZeroBalanceOrInterrupt ==
    /\ EXITED => (exit_path = "natural" \/ interrupts > 0)
    /\ pc = "crashed" => error.at \notin AfterEntry

\* C6: main() is past line 22, or has placed a sell, only after a poll of line
\* 16 returned a balance strictly above the snapshot of line 11.
C6_EntryGuard ==
    (\/ pc \in AfterEntry \cup {"exited"}
     \/ error.at \in AfterEntry
     \/ targets # << >>
     \/ LimitSellsPlaced \cup MarketSellsPlaced # {})
    => /\ ticker_start # None
       /\ polled # None
       /\ polled > ticker_start

\* A limit sell is open after a poll found more than the 1 tick held before.
C6_Witness ==
    /\ HOLDING_AND_SELLING
    /\ LimitSellsPlaced # {}
    /\ ticker_start = 1
    /\ polled > ticker_start

C8_InterruptWhileHolding ==
    (interrupted_in = "HOLDING_AND_SELLING" /\ interrupts = 1) =>
        /\ pc \in {"exit_cancel_fetch", "exit_cancel_loop", "market_sell", "exited"}
        /\ EXITED =>
              /\ exit_path = "interrupt"
              /\ listed \subseteq cancel_requested
              /\ Cardinality(MarketSellsPlaced) = 1
              /\ placed[Len(placed)].kind = "market"

\* C9: when the loop ended because the balance check of line 31 found no
\* balance, line 48 is reached, no interrupt was delivered, and no market sell
\* was placed in the whole run: every sell placed was a limit sell.
C9_NaturalPathHasNoMarketSell ==
    exit_path = "natural" =>
        /\ EXITED
        /\ interrupts = 0
        /\ MarketSellsPlaced = {}
        /\ \A i \in DOMAIN placed : placed[i].kind \in {"buy", "limit"}

\* The loop ended at the balance check after two limit sells.
C9_Witness ==
    /\ exit_path = "natural"
    /\ EXITED
    /\ Cardinality(LimitSellsPlaced) = 2

\* The places of a cycle at which its limit sell has been placed.
OrderOut == pc \in {"report", "wait", "cancel"} /\ sell_order # None

\* C16: a cycle of the loop places one limit sell for floor(100% of the free
\* balance fetched then), waits, requests the cancel of that same order and
\* then decrements sell_change: while the loop runs, every started cycle but
\* the running one has placed its order, the order of every earlier cycle has
\* had its cancel requested before the next one is placed, the order of the
\* running cycle has not, and sell_change has been decremented once per
\* cancel request.
C16_CycleOrdering ==
    pc \in HoldingPcs =>
        /\ Cardinality(LimitSellsPlaced) =
              (IF pc = "loop_check" \/ OrderOut THEN Len(targets) ELSE Len(targets) - 1)
        /\ \A i \in LimitSellsPlaced :
              /\ placed[i].qty % TicksPerUnit = 0
              /\ IsFloorOf(placed[i].qty \div TicksPerUnit,
                           placed[i].free * 100, 100 * TicksPerUnit)
              /\ placed[i].id \in cancel_requested <=>
                    ~(OrderOut /\ placed[i].id = sell_order)
        /\ cancel_requested \subseteq {placed[i].id : i \in LimitSellsPlaced}
        /\ sell_change =
              sell_percent + change_before - Cardinality(cancel_requested) * step_change

\* The second cycle is about to place its order, the cancel of the first
\* cycle's order requested and a balance left.
C16_Witness ==
    /\ pc = "place"
    /\ Len(targets) = 2
    /\ Cardinality(LimitSellsPlaced) = 1
    /\ cancel_requested = {1}
    /\ total > 0

\* C17: while the loop runs, at most one limit sell of main() is open on the
\* exchange, also after a cancel that ran out of retries.
C17_SingleOutstandingOrder ==
    pc \in HoldingPcs => Cardinality(OpenSells) <= 1

\* The quantity of the first n placed orders of a kind.
RECURSIVE PlacedQty(_, _)
PlacedQty(kind, n) ==
    IF n = 0 THEN 0
    ELSE PlacedQty(kind, n - 1) + (IF placed[n].kind = kind THEN placed[n].qty ELSE 0)

\* No interrupt so far, the buy filled, and every limit sell placed so far
\* filled in full.
AllSellsFilled ==
    /\ interrupts = 0
    /\ open_orders = {}
    /\ ticker_start # None
    /\ ticker_start + PlacedQty("buy", Len(placed)) - total
          = PlacedQty("limit", Len(placed))

\* C19: with no interrupt and every limit sell filled in full before the wait
\* of its cycle ends, the loop gets to line 48 by its balance check, from every
\* positive balance: once the order of a cycle is filled during its wait, the
\* balance is zero, or the next cycle can place an order for a positive
\* quantity, which filled brings the balance down.
C19_ProgressUnderFills ==
    (pc = "wait" /\ AllSellsFilled) =>
        (total = 0 \/ SellUnits(Free, 100) > 0)

\* C20: in every cycle sell_price is price * (1 + sell_change/100) for the
\* price read before the buy and the sell_change of the cycle, and it is
\* positive whenever price and step_change are.
C20_SellPricePositive ==
    pc \in {"place", "report", "wait", "cancel"} =>
        /\ targets[Len(targets)] = sell_change
        /\ sell_price = price * (100 + sell_change)
        /\ (price > 0 /\ step_change > 0) => sell_price > 0

\* ---------------------------------------------------------- specifications

InitRetry == RetryInit /\ SizeIdle /\ PumpIdle

SpecRetry == InitRetry /\ [][NextRetry]_vars

InitSize == SizeInit /\ RetryIdle /\ PumpIdle

SpecSize == InitSize /\ [][NextSize]_vars

Init == PumpInit /\ RetryIdle /\ SizeIdle

Next == NextPump

Spec == Init /\ [][Next]_vars

====
